---------------------------- MODULE Spec2Model ----------------------------
(***************************************************************************)
(* Model of backend/app/services/openai_service.py: OpenAISummaryService,   *)
(* its constructor, generate_summary and the three template builders, plus  *)
(* the module-level singleton.                                              *)
(*                                                                          *)
(* Representation.  A Python str is the sequence of its fragments; text     *)
(* that the code inspects character by character (credentials, the remote   *)
(* completion text) is split into single characters.  An Optional[str] is   *)
(* a record [some, str]: None is [some |-> FALSE].  A dict is the sequence  *)
(* of its <<key, value>> items in insertion order.                          *)
(***************************************************************************)
EXTENDS Naturals, Sequences, FiniteSets

VARIABLES
    phase,          \* "new" before __init__ has run, "ready" after
    argKey,         \* __init__'s api_key argument
    envKey,         \* os.environ.get("OPENAI_API_KEY")
    settingsKey,    \* settings.OPENAI_API_KEY
    api_key,        \* self.api_key
    client,         \* self.client
    model,          \* self.model
    pc,             \* per call: "idle", "awaiting", "returned", "raised"
    args,           \* per call: the arguments report_type, report_data
    awaited,        \* per call: what the awaited remote call delivered
    ret,            \* per call: the value returned or the exception raised
    requests,       \* per call: the completion requests it issued, in order
    fallbackCalls   \* per call: invocations of _generate_fallback_summary

vars == <<phase, argKey, envKey, settingsKey, api_key, client, model,
          pc, args, awaited, ret, requests, fallbackCalls>>

ctorVars == <<phase, argKey, envKey, settingsKey, api_key, client, model>>
callVars == <<pc, args, awaited, ret, requests, fallbackCalls>>

----------------------------------------------------------------------------
(* Bounds and program constants *)

NumCalls == 2

\* temperature=0.3, in tenths
TemperatureTenths == 3
MaxTokens == 600

Calls == 1..NumCalls

----------------------------------------------------------------------------
(* Python values *)

None == [some |-> FALSE, str |-> <<>>]
Str(s) == [some |-> TRUE, str |-> s]

\* truthiness of an Optional[str]: None and "" are falsy
Truthy(v) == v.some /\ v.str # <<>>

\* a or b
PyOr(a, b) == IF Truthy(a) THEN a ELSE b

\* s.startswith(p)
StartsWith(s, p) == Len(s) >= Len(p) /\ SubSeq(s, 1, Len(p)) = p

Whitespace == {" ", "\t", "\n", "\r"}

RECURSIVE LStrip(_)
LStrip(s) ==
    IF s # <<>> /\ Head(s) \in Whitespace THEN LStrip(Tail(s)) ELSE s

RECURSIVE RStrip(_)
RStrip(s) ==
    IF s # <<>> /\ s[Len(s)] \in Whitespace
    THEN RStrip(SubSeq(s, 1, Len(s) - 1))
    ELSE s

StripLeftOnly(s) == LStrip(s)

\* s.strip()
Strip(s) == RStrip(LStrip(s))

\* report_data.get(key, default)
Get(d, key, default) ==
    IF \E i \in 1..Len(d) : d[i][1] = key
    THEN d[CHOOSE i \in 1..Len(d) : d[i][1] = key][2]
    ELSE default

\* the text of a dict of strings, as an f-string embeds it
RECURSIVE ReprItems(_)
ReprItems(d) ==
    IF d = <<>> THEN <<>>
    ELSE <<"'", Head(d)[1], "': '", Head(d)[2], "'">>
         \o (IF Tail(d) = <<>> THEN <<>> ELSE <<", ">>)
         \o ReprItems(Tail(d))

Repr(d) == <<"{">> \o ReprItems(d) \o <<"}">>

----------------------------------------------------------------------------
(* Inputs *)

PlaceholderPrefix == <<"s", "k", "-", "y", "o", "u", "r", "-">>

KeyPlaceholder ==
    <<"s", "k", "-", "y", "o", "u", "r", "-", "a", "p", "i", "-", "k", "e", "y">>
KeyA == <<"s", "k", "-", "l", "i", "v", "e", "-", "A">>
KeyB == <<"s", "k", "-", "l", "i", "v", "e", "-", "B">>

\* credentials a source may hold
Creds == {None, Str(<<>>), Str(KeyPlaceholder), Str(KeyA), Str(KeyB)}

\* what the environment holds when the singleton is created
LoadCreds == {None, Str(KeyPlaceholder), Str(KeyA)}

Kinds == {"metar", "taf", "pirep", "sigmet", "unknown-type"}
KnownKinds == {"metar", "taf", "pirep", "sigmet"}

DataEmpty == <<>>
DataFull ==
    << <<"station", "KSEA">>,
       <<"raw_text", "KSEA 021553Z 18008KT 10SM FEW040 12/07 A3012">>,
       <<"location", "30NM W SEA">> >>

Datas == {DataEmpty, DataFull}

ClearSkiesPadded ==
    <<" ", "C", "l", "e", "a", "r", " ", "s", "k", "i", "e", "s", " ",
      "e", "x", "p", "e", "c", "t", "e", "d", ".", " ">>
ClearSkies ==
    <<"C", "l", "e", "a", "r", " ", "s", "k", "i", "e", "s", " ",
      "e", "x", "p", "e", "c", "t", "e", "d", ".">>
TabVfrNewline == <<"\t", "V", "F", "R", "\n">>
Vfr == <<"V", "F", "R">>

\* response.choices, each choice given by its message.content
ChoiceLists ==
    { <<>>,
      <<Str(<<>>)>>,
      <<Str(ClearSkiesPadded)>>,
      <<Str(TabVfrNewline), Str(<<>>)>>,
      <<None, Str(Vfr)>> }

\* what the awaited create() call can deliver: a response object (possibly
\* a falsy one), or an exception raised at the await
Response(cs) == [type |-> "response", present |-> TRUE, choices |-> cs, exc |-> ""]
NoResponse == [type |-> "response", present |-> FALSE, choices |-> <<>>, exc |-> ""]
Raised(e) == [type |-> "raise", present |-> FALSE, choices |-> <<>>, exc |-> e]
NotYet == [type |-> "none", present |-> FALSE, choices |-> <<>>, exc |-> ""]

Responses == {Response(cs) : cs \in ChoiceLists} \cup {NoResponse}

\* errors the client raises: all derive from Exception
RemoteErrors == {"APIConnectionError", "RateLimitError"}


\* the exception hierarchy: `except Exception` catches every class but the
\* BaseException-only ones (asyncio.CancelledError since Python 3.8)
ExceptionSubclasses ==
    RemoteErrors \cup {"IndexError", "AttributeError"}

----------------------------------------------------------------------------
(* __init__ *)

PlaceholderExactOnly(key) == key = PlaceholderPrefix

\* self.api_key.startswith("sk-your-")
IsPlaceholder(key) == StartsWith(key, PlaceholderPrefix)

\* self.api_key after __init__(api_key): a str, "" when unusable
ResolveKey(arg, env, settings) ==
    LET k == PyOr(PyOr(arg, env), settings)
    IN  IF ~Truthy(k) \/ IsPlaceholder(k.str) THEN <<>> ELSE k.str

NoClient == [constructed |-> FALSE, api_key |-> <<>>]

\* AsyncOpenAI(api_key=key)
AsyncOpenAI(key) == [constructed |-> TRUE, api_key |-> key]

Model == "gpt-4o"

Construct ==
    /\ phase = "new"
    /\ phase' = "ready"
    /\ api_key' = ResolveKey(argKey, envKey, settingsKey)
    /\ client' = AsyncOpenAI(api_key')
    /\ model' = Model
    /\ UNCHANGED <<argKey, envKey, settingsKey>>
    /\ UNCHANGED callVars

----------------------------------------------------------------------------
(* The template builders *)

BasePrompt ==
    "You are an expert aviation weather briefing assistant providing detailed, accurate summaries for pilots. Your summaries should be comprehensive yet clear, focusing on operational impact and flight safety. "

get_system_prompt(report_type) ==
    CASE report_type = "metar" ->
           <<BasePrompt, "Analyze and summarize the METAR in plain language with a focus on flight safety. Provide a detailed assessment of ceiling, visibility, winds, pressure, and significant weather phenomena. Include implications for VFR/IFR operations and mention any concerning trends if apparent.">>
      [] report_type = "taf" ->
           <<BasePrompt, "Analyze the TAF forecast in detail, highlighting all operationally significant changes in weather conditions over the forecast period. Break down the forecast into clear time segments, focusing on changing IFR/VFR conditions, wind shifts, and hazardous weather. Include practical recommendations for flight planning.">>
      [] report_type = "pirep" ->
           <<BasePrompt, "Provide a comprehensive analysis of this pilot report focusing on turbulence, icing, cloud tops, and other flight safety hazards. Be specific about altitude-dependent conditions, severity of hazards, and potential impact on different aircraft types. Include practical avoidance strategies when appropriate.">>
      [] report_type = "sigmet" ->
           <<BasePrompt, "Thoroughly analyze this SIGMET emphasizing the hazard, affected area, altitudes, timing, and movement. Provide clear details about the safety implications for flights in or near the affected area, and suggest potential mitigation strategies.">>
      [] OTHER ->
           <<BasePrompt, "Provide a thorough and detailed analysis of this aviation weather information focusing on all flight safety implications and operational considerations.">>

create_prompt_for_report(report_type, report_data) ==
    CASE report_type = "metar" ->
           <<"Create a detailed, pilot-friendly analysis of this METAR for ",
             Get(report_data, "station", "unknown station"),
             ":\nRaw METAR: ",
             Get(report_data, "raw_text", "No raw data available"),
             "\n\nInclude the following in your summary:\n1. Flight category (VFR/MVFR/IFR/LIFR) with clear explanation of the determining factors\n2. Ceiling and visibility in plain language with operational impact\n3. Detailed wind conditions including gusts and crosswind components if significant\n4. All precipitation and weather phenomena with severity and implications\n5. Temperature/dewpoint analysis including potential for icing or fog formation\n6. Pressure trends and their significance\n7. Any specific hazards or concerns evident from the report\n\nFormat your response with clear sections and conclude with specific operational recommendations.">>
      [] report_type = "taf" ->
           <<"Create a detailed, pilot-friendly analysis of this TAF forecast for ",
             Get(report_data, "station", "unknown station"),
             ":\nRaw TAF: ",
             Get(report_data, "raw_text", "No raw data available"),
             "\n\nInclude the following in your analysis:\n1. Overall summary of weather evolution during the forecast period\n2. Detailed breakdown of each significant time period in chronological order\n3. Clear identification of all IFR or MVFR conditions with timing and duration\n4. Comprehensive wind analysis including direction shifts and gusting conditions\n5. Detailed description of all forecast weather phenomena and their intensity\n6. Identification of the most challenging period(s) during the forecast\n7. Specific operational considerations for takeoff, en route, and landing phases\n\nStructure your response with clearly organized sections by time period, and conclude with practical flight planning recommendations.">>
      [] report_type = "pirep" ->
           <<"Create a detailed, pilot-friendly analysis of this Pilot Report:\nRaw PIREP: ",
             Get(report_data, "raw_text", "No raw data available"),
             "\n\nInclude the following in your analysis:\n1. Aircraft type, precise location, and altitude of the report\n2. Detailed assessment of turbulence including type, intensity, and vertical extent\n3. Comprehensive icing information including type, severity, and altitude layer\n4. Thorough cloud information including bases, tops, layers, and coverage\n5. Visibility conditions and any obscuring phenomena\n6. Time context of the report and its current relevance\n7. Correlation with forecast conditions if apparent\n\nFormat your response with clear sections and conclude with specific operational recommendations for pilots in the area.">>
      [] report_type = "sigmet" ->
           <<"Create a detailed, pilot-friendly analysis of this SIGMET:\nRaw SIGMET: ",
             Get(report_data, "raw_text", "No raw data available"),
             "\n\nInclude the following in your analysis:\n1. Precise identification of the hazard type and its severity\n2. Detailed geographic description of the affected area with key landmarks/waypoints\n3. Comprehensive altitude range information with flight level context\n4. Specific validity timeframe and remaining duration\n5. Movement, intensification, or dissipation trends of the hazard\n6. Potential impact on different phases of flight and aircraft categories\n7. Correlation with other weather data if apparent\n\nStructure your response with clear sections and conclude with specific avoidance or mitigation strategies.">>
      [] OTHER ->
           <<"Please provide a comprehensive analysis of this aviation weather information with detailed operational implications for pilots: ">>
           \o Repr(report_data)

GenericFallback ==
    <<"Weather information available.\n\nRefer to the raw data for complete details.\n\nEnsure thorough preflight planning.">>

generate_fallback_summary(report_type, report_data) ==
    CASE report_type = "metar" ->
           <<"METAR for ", Get(report_data, "station", "unknown station"),
             ".\n\nThis is automated weather data. Check the raw report for details.\n\nExercise caution and verify conditions before flight.">>
      [] report_type = "taf" ->
           <<"TAF forecast for ", Get(report_data, "station", "unknown station"),
             ".\n\nConsult the raw forecast for detailed weather predictions.\n\nPlan your flight carefully considering all available information.">>
      [] report_type = "pirep" ->
           <<"Pilot report near ", Get(report_data, "location", "unknown location"),
             ".\n\nReview the raw report for specific conditions reported.\n\nConsider these pilot observations in your flight planning.">>
      [] OTHER -> GenericFallback

----------------------------------------------------------------------------
(* generate_summary *)

Returned(v) == [status |-> "returned", value |-> v, exc |-> ""]
Propagated(e) == [status |-> "raised", value |-> None, exc |-> e]
NoResult == [status |-> "none", value |-> None, exc |-> ""]

ConfiguredAlways(key) == TRUE

\* `if not self.api_key` is not taken
Configured(key) == key # <<>>

\* the request that create() sends
BuildRequest(report_type, report_data) ==
    [model |-> model,
     messages |->
        << [role |-> "system", content |-> get_system_prompt(report_type)],
           [role |-> "user",
            content |-> create_prompt_for_report(report_type, report_data)] >>,
     temperature |-> TemperatureTenths,
     max_tokens |-> MaxTokens]

SendTwice(log, req) == Append(Append(log, req), req)

\* one call of self.client.chat.completions.create, recorded in the log
SendRequest(log, req) == Append(log, req)

HasChoicesUnchecked(a) == a.present

\* `response and response.choices and len(response.choices) > 0`
HasChoices(a) == a.present /\ Len(a.choices) > 0

\* the body of the try block from the point the await completes
TryBody(a) ==
    IF a.type = "raise" THEN Propagated(a.exc)
    ELSE IF HasChoices(a)
         THEN IF Len(a.choices) = 0 THEN Propagated("IndexError")
              ELSE IF ~a.choices[1].some THEN Propagated("AttributeError")
              ELSE Returned(Str(Strip(a.choices[1].str)))
         ELSE Returned(None)

CaughtNarrow(e) == e \in {"APIConnectionError", "IndexError", "AttributeError"}

\* `except Exception as e`
CaughtByExcept(e) == e \in ExceptionSubclasses

ArgsShared(c) ==
    args[CHOOSE d \in Calls :
            /\ pc[d] # "idle"
            /\ \A e \in Calls : pc[e] # "idle" => e <= d]

\* the arguments a call's frame holds
ArgsOf(c) == args[c]

\* whether the except branch, and so the fallback builder, runs
FallbackRuns(a) == TryBody(a).status = "raised" /\ CaughtByExcept(TryBody(a).exc)

\* how generate_summary ends once the await has delivered a
Outcome(report_type, report_data, a) ==
    IF FallbackRuns(a)
    THEN Returned(Str(generate_fallback_summary(report_type, report_data)))
    ELSE TryBody(a)

Finish(c, a) ==
    LET o == Outcome(ArgsOf(c).report_type, ArgsOf(c).report_data, a)
    IN  /\ awaited' = [awaited EXCEPT ![c] = a]
        /\ ret' = [ret EXCEPT ![c] = o]
        /\ pc' = [pc EXCEPT ![c] = o.status]
        /\ fallbackCalls' =
              [fallbackCalls EXCEPT ![c] = @ + (IF FallbackRuns(a) THEN 1 ELSE 0)]
        /\ UNCHANGED <<args, requests>>
        /\ UNCHANGED ctorVars

\* generate_summary is called and runs up to its return or its await
Call(c) ==
    /\ phase = "ready"
    /\ pc[c] = "idle"
    /\ \E report_type \in Kinds, report_data \in Datas :
          /\ args' = [args EXCEPT ![c] =
                        [report_type |-> report_type, report_data |-> report_data]]
          /\ IF ~Configured(api_key)
             THEN /\ pc' = [pc EXCEPT ![c] = "returned"]
                  /\ ret' = [ret EXCEPT ![c] = Returned(None)]
                  /\ UNCHANGED requests
             ELSE /\ pc' = [pc EXCEPT ![c] = "awaiting"]
                  /\ requests' = [requests EXCEPT ![c] =
                        SendRequest(@, BuildRequest(report_type, report_data))]
                  /\ UNCHANGED ret
    /\ UNCHANGED <<awaited, fallbackCalls>>
    /\ UNCHANGED ctorVars

\* the awaited create() returns a response
Respond(c) ==
    /\ pc[c] = "awaiting"
    /\ \E a \in Responses : Finish(c, a)

\* the awaited create() raises one of the client's errors
RemoteRaises(c) ==
    /\ pc[c] = "awaiting"
    /\ \E e \in RemoteErrors : Finish(c, Raised(e))

\* the caller cancels the task: CancelledError is raised at the await
Cancel(c) ==
    /\ pc[c] = "awaiting"
    /\ Finish(c, Raised("CancelledError"))

----------------------------------------------------------------------------
(* Specifications *)

NoArgs == [report_type |-> "", report_data |-> <<>>]

CallsIdle ==
    /\ pc = [c \in Calls |-> "idle"]
    /\ args = [c \in Calls |-> NoArgs]
    /\ awaited = [c \in Calls |-> NotYet]
    /\ ret = [c \in Calls |-> NoResult]
    /\ requests = [c \in Calls |-> <<>>]
    /\ fallbackCalls = [c \in Calls |-> 0]

\* the state once the module is loaded: openai_service = OpenAISummaryService()
Init ==
    /\ phase = "ready"
    /\ argKey = None
    /\ envKey \in LoadCreds
    /\ settingsKey = Str(KeyPlaceholder)
    /\ api_key = ResolveKey(argKey, envKey, settingsKey)
    /\ client = AsyncOpenAI(api_key)
    /\ model = Model
    /\ CallsIdle

Next ==
    \E c \in Calls :
        \/ Call(c)
        \/ Respond(c)
        \/ RemoteRaises(c)
        \/ Cancel(c)

Spec == Init /\ [][Next]_vars

\* a generator about to be constructed, for any api_key argument
InitCtor ==
    /\ phase = "new"
    /\ argKey \in Creds
    /\ envKey \in Creds
    /\ settingsKey \in Creds
    /\ api_key = <<>>
    /\ client = NoClient
    /\ model = ""
    /\ CallsIdle

NextCtor == Construct

SpecCtor == InitCtor /\ [][NextCtor]_vars

----------------------------------------------------------------------------
(* Properties *)

Done(c) == pc[c] \in {"returned", "raised"}

GotResponse(c) == awaited[c].type = "response" /\ awaited[c].present

FallbackFor(c) ==
    generate_fallback_summary(args[c].report_type, args[c].report_data)

\* C1: when the remote call raises an error, generate_summary returns, and
\* what it returns is exactly the fallback builder's string for the call's
\* own kind and data.
C1_ErrorYieldsFallback ==
    \A c \in Calls :
        (awaited[c].type = "raise" /\ awaited[c].exc \in RemoteErrors)
            => ret[c] = Returned(Str(FallbackFor(c)))

C1_Witness ==
    \E c \in Calls :
        /\ awaited[c] = Raised("RateLimitError")
        /\ args[c] = [report_type |-> "metar", report_data |-> DataFull]
        /\ ret[c].status = "returned"
        /\ ret[c].value.str[1] = "METAR for "
        /\ ret[c].value.str[2] = "KSEA"

\* C2: with no usable credential every call returns None and issues no
\* remote request.
C2_NoCredentialNoRequest ==
    api_key = <<>> =>
        \A c \in Calls :
            /\ requests[c] = <<>>
            /\ pc[c] \in {"idle", "returned"}
            /\ pc[c] = "returned" => ret[c] = Returned(None)

C2_Witness ==
    /\ api_key = <<>>
    /\ \E c \in Calls : pc[c] = "returned" /\ args[c].report_type = "taf"

EmptyText(content) == ~content.some \/ content.str = <<>>

\* C3: a response with zero choices, or whose first choice has empty text,
\* makes generate_summary return None (not "" and not the fallback).
C3_EmptyResponseReturnsNone ==
    \A c \in Calls :
        (/\ GotResponse(c)
         /\ \/ awaited[c].choices = <<>>
            \/ EmptyText(awaited[c].choices[1]))
            => ret[c] = Returned(None)

\* C4: a call cancelled while its request is in flight still ends by
\* returning a value; the cancellation does not escape as an exception.
C4_CancelledCallReturns ==
    \A c \in Calls :
        awaited[c] = Raised("CancelledError") => ret[c].status = "returned"

\* C5: a response whose choices list is empty makes generate_summary return
\* None, and the fallback builder is not invoked.
C5_EmptyChoicesReturnsNone ==
    \A c \in Calls :
        (GotResponse(c) /\ awaited[c].choices = <<>>)
            => ret[c] = Returned(None) /\ fallbackCalls[c] = 0

C5_Witness ==
    \E c \in Calls :
        /\ awaited[c] = Response(<<>>)
        /\ pc[c] = "returned"
        /\ Len(requests[c]) = 1

\* r is t without its leading and trailing whitespace, otherwise unmodified
IsTrimOf(r, t) ==
    /\ \E i, j \in 0..Len(t) :
          /\ i + j <= Len(t)
          /\ r = SubSeq(t, i + 1, Len(t) - j)
          /\ \A k \in 1..i : t[k] \in Whitespace
          /\ \A k \in (Len(t) - j + 1)..Len(t) : t[k] \in Whitespace
    /\ r # <<>> => (r[1] \notin Whitespace /\ r[Len(r)] \notin Whitespace)

\* C6: when the response's first choice carries non-empty text,
\* generate_summary returns that text with leading and trailing whitespace
\* removed and otherwise unmodified.
C6_FirstChoiceTrimmed ==
    \A c \in Calls :
        (/\ GotResponse(c)
         /\ awaited[c].choices # <<>>
         /\ ~EmptyText(awaited[c].choices[1]))
            => /\ ret[c].status = "returned"
               /\ ret[c].value.some
               /\ IsTrimOf(ret[c].value.str, awaited[c].choices[1].str)

C6_Witness ==
    \E c \in Calls :
        /\ awaited[c] = Response(<<Str(ClearSkiesPadded)>>)
        /\ ret[c] = Returned(Str(ClearSkies))

\* C7: every call's request and result are those its own arguments and its
\* own remote outcome determine, whatever the other calls do, and no step
\* changes the generator's credential, model identifier or client.
C7_NoCrossCallInterference ==
    /\ [](\A c \in Calls :
            /\ (pc[c] # "idle" /\ api_key # <<>>) =>
                  requests[c] =
                     <<BuildRequest(args[c].report_type, args[c].report_data)>>
            /\ Done(c) =>
                  ret[c] = IF api_key = <<>> THEN Returned(None)
                           ELSE Outcome(args[c].report_type,
                                        args[c].report_data, awaited[c]))
    /\ [][api_key' = api_key /\ model' = model /\ client' = client]_vars

C7_Witness ==
    \E c, d \in Calls :
        /\ pc[c] = "returned" /\ fallbackCalls[c] = 1
        /\ pc[d] = "awaiting"
        /\ args[c].report_type = "metar" /\ args[d].report_type = "taf"
        /\ args[c].report_data # args[d].report_data
        /\ d < c

NonEmpty(v) == v.some /\ Len(v.str) > 0

\* C8: after construction the credential is the first non-empty value among
\* argument, environment and settings, replaced by "" exactly when there is
\* none or it begins with "sk-your-"; the client is constructed either way.
C8_CredentialResolution ==
    phase = "ready" =>
        LET first == IF NonEmpty(argKey) THEN argKey
                     ELSE IF NonEmpty(envKey) THEN envKey
                     ELSE IF NonEmpty(settingsKey) THEN settingsKey
                     ELSE None
            unusable == \/ ~NonEmpty(first)
                        \/ StartsWith(first.str, PlaceholderPrefix)
        IN  /\ unusable => api_key = <<>>
            /\ ~unusable => api_key = first.str /\ api_key # <<>>
            /\ client = [constructed |-> TRUE, api_key |-> api_key]

C8_Witness ==
    /\ phase = "ready"
    /\ argKey = Str(<<>>)
    /\ envKey = Str(KeyPlaceholder)
    /\ settingsKey = Str(KeyB)
    /\ api_key = <<>>
    /\ client.constructed

\* C9: a call on a configured generator issues exactly one request, made of
\* a system message then a user message with temperature 0.3 and max_tokens
\* 600, and issues no further request after the request's outcome.
C9_ExactlyOneRequest ==
    \A c \in Calls :
        (api_key # <<>> /\ pc[c] # "idle") =>
            /\ Len(requests[c]) = 1
            /\ Len(requests[c][1].messages) = 2
            /\ requests[c][1].messages[1] =
                  [role |-> "system",
                   content |-> get_system_prompt(args[c].report_type)]
            /\ requests[c][1].messages[2] =
                  [role |-> "user",
                   content |-> create_prompt_for_report(args[c].report_type,
                                                        args[c].report_data)]
            /\ requests[c][1].temperature = 3
            /\ requests[c][1].max_tokens = 600

C9_Witness ==
    \E c \in Calls :
        /\ awaited[c] = Raised("APIConnectionError")
        /\ pc[c] = "returned"
        /\ Len(requests[c]) = 1

\* C10: each of the four known kinds has its own fallback template, whose
\* header names the station or location (or a placeholder); the generic
\* template serves unrecognized kinds only.
C10_DedicatedFallbackPerKnownKind ==
    \A c \in Calls :
        (fallbackCalls[c] = 1 /\ args[c].report_type \in KnownKinds)
            => /\ ret[c].value.str # GenericFallback
               /\ ret[c].value.str[2] \in
                     {Get(args[c].report_data, "station", "unknown station"),
                      Get(args[c].report_data, "location", "unknown location")}

=============================================================================
